---- MODULE Spec2Model ----
(***************************************************************************)
(* A model of shastity's configuration layer (src/shastity/config.py):    *)
(* typed options (AbstractOption, StringOption, IntOption, and the        *)
(* BoolOption the tests exercise) and DefaultConfiguration with its       *)
(* conflict-checked merge; and of its file system layer                    *)
(* (src/shastity/filesystem.py): TemporaryDirectory, LocalFileSystem and   *)
(* MemoryFileSystem.                                                       *)
(*                                                                         *)
(* Python objects live in two heaps: opts (Option instances, by id) and    *)
(* cfgs (DefaultConfiguration instances, by id).  A configuration's        *)
(* private dict maps option names to option ids, so two configurations     *)
(* holding the same id hold the same Python object.  res records the last  *)
(* call: what was called, with which arguments, and how it ended (a return *)
(* value or the exception that left the call).                             *)
(*                                                                         *)
(* The file system layer has its own state: ostree, the directories of the *)
(* operating system that LocalFileSystem (and os.path.exists) work on;     *)
(* memtree, the private __tree of the one MemoryFileSystem instance; tds,  *)
(* the TemporaryDirectory instances by id; rmlog, for each of them the     *)
(* rmtree calls its close() has made; reftree, the directories of a        *)
(* LocalFileSystem that is handed every call the MemoryFileSystem is       *)
(* handed; and fres, the last file system call and how it ended.           *)
(***************************************************************************)
EXTENDS Integers, Sequences, FiniteSets, TLC

VARIABLES opts, cfgs, res, ostree, memtree, reftree, tds, rmlog, fres

\* The state of the configuration layer and of the file system layer.
cfgvars == <<opts, cfgs, res>>
fsvars == <<ostree, memtree, reftree, tds, rmlog, fres>>

vars == <<opts, cfgs, res, ostree, memtree, reftree, tds, rmlog, fres>>

(***************************************************************************)
(* Bounds of the model.                                                    *)
(***************************************************************************)
\* DefaultConfiguration instances that can be allocated.
MaxCfgs == 3

CfgIds == 1..MaxCfgs

\* TemporaryDirectory instances that can be allocated.
MaxTds == 1

TdIds == 1..MaxTds

(***************************************************************************)
(* The file system layer at rest.  A directory tree is the set of its      *)
(* directories, each named by the sequence of entry names that leads to it *)
(* from the root; the root is << >>.                                       *)
(***************************************************************************)
\* The operating system's directories when the program starts: the
\* temporary directory tempfile uses, and the working directory.
InitOsTree == {<< >>, <<"tmp">>, <<"home">>}

\* The working directory of the process.
Cwd == <<"home">>

\* MemoryFileSystem.__init__: self.__tree = dict(tmp=dict()).  The tree maps
\* the key sequence of every entry to the Python type of its node.
InitMemTree == [p \in {<<"tmp">>} |-> "dict"]

\* What MemoryFileSystem.__init__ builds, as directories of a file system:
\* the root, which is also the working directory, and tmp.
InitRefTree == {<< >>, <<"tmp">>}

RefCwd == << >>

\* A TemporaryDirectory id not yet given to an instance.
NoTd == [alive |-> FALSE, fs |-> "", path |-> << >>, stale |-> FALSE, made |-> ""]

\* No file system call yet.  calls are the rmtree calls the call made; ref is
\* how the same call ends on the LocalFileSystem of reftree.
NoOutcome ==
  [outcome |-> "", errno |-> "", ret |-> "", path |-> << >>, names |-> << >>]

NoFres ==
  [op |-> "none", fs |-> "", h |-> 0, path |-> << >>, outcome |-> "ok",
   errno |-> "", ret |-> "", retpath |-> << >>, retfs |-> "", names |-> << >>,
   exc |-> FALSE, calls |-> << >>, ref |-> NoOutcome]

FsInit ==
  /\ ostree = InitOsTree
  /\ memtree = InitMemTree
  /\ reftree = InitRefTree
  /\ tds = [h \in TdIds |-> NoTd]
  /\ rmlog = [h \in TdIds |-> << >>]
  /\ fres = NoFres

(***************************************************************************)
(* Python values.  t is the runtime type; s holds the characters of a str  *)
(* or unicode (and the digits of a long), n the value of an int, b the     *)
(* value of a bool.                                                        *)
(***************************************************************************)
NoneV == [t |-> "NoneType", s |-> <<>>, n |-> 0, b |-> FALSE]
StrV(s) == [t |-> "str", s |-> s, n |-> 0, b |-> FALSE]
UnicodeV(s) == [t |-> "unicode", s |-> s, n |-> 0, b |-> FALSE]
IntV(n) == [t |-> "int", s |-> <<>>, n |-> n, b |-> FALSE]
LongV(s) == [t |-> "long", s |-> s, n |-> 0, b |-> FALSE]
BoolV(b) == [t |-> "bool", s |-> <<>>, n |-> 0, b |-> b]

\* isinstance(v, int): bool is a subclass of int, long is not.
IsInstanceInt(v) == v.t \in {"int", "bool"}

\* isinstance(v, str) or isinstance(v, unicode)
IsInstanceString(v) == v.t \in {"str", "unicode"}

(***************************************************************************)
(* Text handed to an exception.  unicode(option) is unicode(self.name),    *)
(* the text of the bound method name, never the text name() returns.       *)
(***************************************************************************)
NoText == [form |-> "none", text |-> ""]
Text(n) == [form |-> "text", text |-> n]
UnicodeOfOption(o) == [form |-> "bound method", text |-> "name"]

(***************************************************************************)
(* int(s) on a string: surrounding whitespace is stripped, one sign is     *)
(* allowed, then at least one decimal digit and nothing else.  A value     *)
(* above sys.maxint comes back as a long.                                  *)
(***************************************************************************)
SysMaxInt == 2147483647

DigitChars == <<"0", "1", "2", "3", "4", "5", "6", "7", "8", "9">>

IsDigit(c) == \E i \in 1..10 : DigitChars[i] = c

DigitValue(c) == (CHOOSE i \in 1..10 : DigitChars[i] = c) - 1

IsSpace(c) == c \in {" ", "\t", "\n"}

RECURSIVE LStrip(_)
LStrip(s) == IF s # <<>> /\ IsSpace(Head(s)) THEN LStrip(Tail(s)) ELSE s

RECURSIVE RStrip(_)
RStrip(s) ==
  IF s # <<>> /\ IsSpace(s[Len(s)]) THEN RStrip(SubSeq(s, 1, Len(s) - 1)) ELSE s

Strip(s) == RStrip(LStrip(s))

\* The magnitude of a digit string, or -1 once it exceeds sys.maxint.
RECURSIVE Magnitude(_, _)
Magnitude(acc, ds) ==
  IF ds = <<>> THEN acc
  ELSE LET d == DigitValue(Head(ds))
       IN IF acc > (SysMaxInt - d) \div 10 THEN -1
          ELSE Magnitude(acc * 10 + d, Tail(ds))

\* int(s) for a str or unicode s: [outcome, value].
IntOfString(s) ==
  LET body == Strip(s)
      signed == body # <<>> /\ Head(body) \in {"+", "-"}
      ds == IF signed THEN Tail(body) ELSE body
      neg == signed /\ Head(body) = "-"
  IN IF ds = <<>> \/ \E i \in 1..Len(ds) : ~IsDigit(ds[i])
     THEN [outcome |-> "ValueError", value |-> NoneV]
     ELSE LET m == Magnitude(0, ds)
          IN IF m < 0
             THEN [outcome |-> "ok", value |-> LongV(body)]
             ELSE [outcome |-> "ok", value |-> IntV(IF neg THEN 0 - m ELSE m)]

\* int(v) for any value v.
IntOf(v) ==
  CASE IsInstanceString(v) -> IntOfString(v.s)
    [] v.t = "int" -> [outcome |-> "ok", value |-> v]
    [] v.t = "bool" -> [outcome |-> "ok", value |-> IntV(IF v.b THEN 1 ELSE 0)]
    [] v.t = "long" -> [outcome |-> "ok", value |-> v]
    [] OTHER -> [outcome |-> "TypeError", value |-> NoneV]

(***************************************************************************)
(* Options.  An Option instance is a record: its class (kind), the two     *)
(* names given to __init__, the private flag __set, and the private        *)
(* attribute __value, which exists only once set() has assigned it         *)
(* (hasval).                                                               *)
(***************************************************************************)
Kinds == <<"StringOption", "IntOption", "BoolOption">>

\* AbstractOption.__init__(long_name, short_name=None).  It takes no other
\* keyword: a call that passes default=... raises TypeError and builds nothing.
NewOption(kind, long_name, short_name, keywords) ==
  IF keywords \subseteq {"short_name"}
  THEN [outcome |-> "ok",
        opt |-> [kind |-> kind, name |-> long_name, short |-> short_name,
                 isset |-> FALSE, hasval |-> FALSE, val |-> NoneV]]
  ELSE [outcome |-> "TypeError",
        opt |-> [kind |-> kind, name |-> long_name, short |-> short_name,
                 isset |-> FALSE, hasval |-> FALSE, val |-> NoneV]]

\* Option.name() and Option.short_name()
OptName(o) == o.name

OptShortName(o) == o.short

\* StringOption._validate / IntOption._validate: the exception raised, or "ok".
\* IntOption uses isinstance(value, int), so a bool passes.
Validate(kind, v) ==
  CASE kind = "StringOption" ->
         IF IsInstanceString(v) THEN "ok" ELSE "BadOptionValueType"
    [] kind = "IntOption" ->
         IF IsInstanceInt(v) THEN "ok" ELSE "BadOptionValueType"
    [] OTHER -> "NameError"

\* BoolOption._validate: the value must be a bool.
BoolValidate(v) == IF v.t = "bool" THEN "ok" ELSE "BadOptionValueType"

\* str.lower() on the ASCII letters the boolean literals use.
LowerChar(c) ==
  CASE c = "T" -> "t" [] c = "R" -> "r" [] c = "U" -> "u" [] c = "E" -> "e"
    [] c = "F" -> "f" [] c = "A" -> "a" [] c = "L" -> "l" [] c = "S" -> "s"
    [] c = "N" -> "n" [] c = "O" -> "o" [] c = "B" -> "b"
    [] OTHER -> c

Lower(s) == [i \in 1..Len(s) |-> LowerChar(s[i])]

\* BoolOption._parse: exactly "true", "false", "1", "0", in any letter case.
BoolParse(v) ==
  IF ~IsInstanceString(v) THEN [outcome |-> "OptionParseError", value |-> NoneV]
  ELSE LET l == Lower(v.s)
       IN CASE l \in {<<"t", "r", "u", "e">>, <<"1">>} ->
                 [outcome |-> "ok", value |-> BoolV(TRUE)]
            [] l \in {<<"f", "a", "l", "s", "e">>, <<"0">>} ->
                 [outcome |-> "ok", value |-> BoolV(FALSE)]
            [] OTHER -> [outcome |-> "OptionParseError", value |-> NoneV]

\* StringOption._parse returns its argument; IntOption._parse is int(s).
ParseValue(kind, v) ==
  CASE kind = "StringOption" -> [outcome |-> "ok", value |-> v]
    [] kind = "IntOption" -> IntOf(v)
    [] OTHER -> [outcome |-> "NotImplementedError", value |-> NoneV]

\* _validate and _parse as dispatched on the option's class.
ValidateOf(o, v) ==
  IF o.kind = "BoolOption" THEN BoolValidate(v) ELSE Validate(o.kind, v)

ParseOf(o, v) ==
  IF o.kind = "BoolOption" THEN BoolParse(v) ELSE ParseValue(o.kind, v)

OptSetAssignsFirst(o, v) ==
  LET e == ValidateOf(o, v)
  IN [outcome |-> e, opt |-> [o EXCEPT !.isset = TRUE, !.hasval = TRUE, !.val = v]]

\* AbstractOption.set: validate, then record the value.  [outcome, opt].
OptSet(o, v) ==
  LET e == ValidateOf(o, v)
  IN IF e # "ok" THEN [outcome |-> e, opt |-> o]
     ELSE [outcome |-> "ok",
           opt |-> [o EXCEPT !.isset = TRUE, !.hasval = TRUE, !.val = v]]

\* AbstractOption.parse: self.set(self._parse(value)).  [outcome, opt].
OptParse(o, v) ==
  LET p == ParseOf(o, v)
  IN IF p.outcome # "ok" THEN [outcome |-> p.outcome, opt |-> o]
     ELSE OptSet(o, p.value)

\* AbstractOption.get: the attribute __value, which does not exist before
\* the first successful set.  [outcome, value].
OptGet(o) ==
  IF o.hasval THEN [outcome |-> "ok", value |-> o.val]
  ELSE [outcome |-> "AttributeError", value |-> NoneV]

\* AbstractOption.get_required.  [outcome, value, name, comment]: name and
\* comment are what the RequiredOptionMissingError carries.
OptGetRequired(o, comment) ==
  IF ~o.isset
  THEN [outcome |-> "RequiredOptionMissingError", value |-> NoneV,
        name |-> UnicodeOfOption(o), comment |-> comment]
  ELSE LET g == OptGet(o)
       IN [outcome |-> g.outcome, value |-> g.value,
           name |-> NoText, comment |-> NoneV]

(***************************************************************************)
(* The option instances of the model.  Slot o holds an option of class     *)
(* KindOf(o) named NameOf(o); two slots share the name "o2", one of them   *)
(* with the short name 'o', as in test_default_configuration_merge.        *)
(***************************************************************************)
OptNames == <<"o1", "o2", "o2">>

OptIds == 1..Len(OptNames)

KindOf(o) == Kinds[((o - 1) % Len(Kinds)) + 1]

NameOf(o) == OptNames[o]

ShortOf(o) == IF o = Len(OptNames) THEN StrV(<<"o">>) ELSE NoneV

AllNames == {NameOf(o) : o \in OptIds}

\* The record of a call; the fields a call does not use keep these values.
NoRes ==
  [op |-> "none", outcome |-> "ok", o |-> 0, arg |-> NoneV, value |-> NoneV,
   name |-> NoText, comment |-> NoneV, keywords |-> {},
   c |-> 0, a |-> 0, b |-> 0, allow |-> FALSE, ret |-> 0, n |-> ""]

(***************************************************************************)
(* Calls on an option.                                                     *)
(***************************************************************************)
\* Values handed to set().
SetValues ==
  {StrV(<<"t", "e", "s", "t">>), StrV(<<"5">>), UnicodeV(<<"u">>),
   IntV(5), BoolV(TRUE), NoneV}

\* Values handed to parse(): strings, and the int of test_int_option.
TwentyNines == [i \in 1..20 |-> "9"]

ParseInputs ==
  {StrV(<<"t", "e", "s", "t">>), StrV(<<"5">>), StrV(<<" ", "-", "1", "2", " ">>),
   StrV(<<"t", "r", "u", "e">>), StrV(<<"T", "r", "u", "e">>),
   StrV(<<"f", "a", "l", "s", "e">>), StrV(<<"F", "a", "l", "s", "e">>),
   StrV(<<"1">>), StrV(<<"0">>), StrV(<<>>),
   StrV(<<"n", "o", "t", "a", "b", "o", "o", "l">>),
   StrV(TwentyNines), IntV(5)}

Comments == {NoneV, StrV(<<"w", "h", "y">>)}

\* opt = KindOf(o)(NameOf(o), ShortOf(o)), or with default=... as well.
Construct(o, keywords) ==
  LET r == NewOption(KindOf(o), NameOf(o), ShortOf(o), keywords)
  IN /\ opts' = IF r.outcome = "ok" THEN [opts EXCEPT ![o] = r.opt] ELSE opts
     /\ res' = [NoRes EXCEPT !.op = "construct", !.outcome = r.outcome, !.o = o,
                             !.keywords = keywords]
     /\ UNCHANGED <<cfgs, fsvars>>

\* opts[o].set(v)
Set(o, v) ==
  LET r == OptSet(opts[o], v)
  IN /\ opts' = [opts EXCEPT ![o] = r.opt]
     /\ res' = [NoRes EXCEPT !.op = "set", !.outcome = r.outcome, !.o = o,
                             !.arg = v]
     /\ UNCHANGED <<cfgs, fsvars>>

\* opts[o].parse(v)
Parse(o, v) ==
  LET r == OptParse(opts[o], v)
  IN /\ opts' = [opts EXCEPT ![o] = r.opt]
     /\ res' = [NoRes EXCEPT !.op = "parse", !.outcome = r.outcome, !.o = o,
                             !.arg = v]
     /\ UNCHANGED <<cfgs, fsvars>>

\* opts[o].get()
Get(o) ==
  LET r == OptGet(opts[o])
  IN /\ res' = [NoRes EXCEPT !.op = "get", !.outcome = r.outcome, !.o = o,
                             !.value = r.value]
     /\ UNCHANGED <<opts, cfgs, fsvars>>

\* opts[o].get_required(comment)
GetRequired(o, comment) ==
  LET r == OptGetRequired(opts[o], comment)
  IN /\ res' = [NoRes EXCEPT !.op = "get_required", !.outcome = r.outcome,
                             !.o = o, !.value = r.value, !.name = r.name,
                             !.comment = r.comment, !.arg = comment]
     /\ UNCHANGED <<opts, cfgs, fsvars>>

\* The heaps after the options are constructed, before any configuration is.
InitOpts == [o \in OptIds |-> NewOption(KindOf(o), NameOf(o), ShortOf(o), {}).opt]

NoCfg == [alive |-> FALSE, map |-> << >>]

InitOption ==
  /\ opts = InitOpts
  /\ cfgs = [c \in CfgIds |-> NoCfg]
  /\ res = NoRes
  /\ FsInit

\* One option of each class is exercised.
KindSlots == {o \in OptIds : o <= Len(Kinds)}

NextOption ==
  \/ \E o \in KindSlots, k \in {{}, {"default"}} : Construct(o, k)
  \/ \E o \in KindSlots, v \in SetValues : Set(o, v)
  \/ \E o \in KindSlots, v \in ParseInputs : Parse(o, v)
  \/ \E o \in KindSlots : Get(o)
  \/ \E o \in KindSlots, m \in Comments : GetRequired(o, m)

SpecOption == InitOption /\ [][NextOption]_vars

(***************************************************************************)
(* Configurations.  The dict of a DefaultConfiguration is a function from  *)
(* the names it holds to option ids.  The operators below take the option  *)
(* heap h, since add_option asks the option for its name.                  *)
(***************************************************************************)
DictPut(m, k, v) == [x \in DOMAIN m \cup {k} |-> IF x = k THEN v ELSE m[x]]

DictDel(m, k) == [x \in DOMAIN m \ {k} |-> m[x]]

Range(m) == {m[k] : k \in DOMAIN m}

\* has_option(name)
HasOption(m, name) == name \in DOMAIN m

\* get_option(name): [outcome, o]
GetOption(m, name) ==
  IF name \in DOMAIN m THEN [outcome |-> "ok", o |-> m[name]]
  ELSE [outcome |-> "KeyError", o |-> 0]

\* add_option(option): [outcome, map].  The exception class the duplicate
\* case names is defined nowhere in the module, so raising it is a NameError.
AddOption(h, m, opt) ==
  LET name == OptName(h[opt])
  IN IF name \in DOMAIN m THEN [outcome |-> "NameError", map |-> m]
     ELSE [outcome |-> "ok", map |-> DictPut(m, name, opt)]

\* remove_option(name): del self.__options[name].  [outcome, map]
RemoveOption(m, name) ==
  IF name \in DOMAIN m THEN [outcome |-> "ok", map |-> DictDel(m, name)]
  ELSE [outcome |-> "KeyError", map |-> m]

\* The loop of __init__ over opts.iteritems(), in the order the dict yields.
RECURSIVE InitLoop(_, _, _, _)
InitLoop(h, m, d, order) ==
  IF order = <<>> THEN [outcome |-> "ok", map |-> m]
  ELSE LET name == Head(order)
           opt == d[name]
       IN IF name # OptName(h[opt])
          THEN [outcome |-> "AssertionError", map |-> m]
          ELSE LET r == AddOption(h, m, opt)
               IN IF r.outcome # "ok" THEN r
                  ELSE InitLoop(h, r.map, d, Tail(order))

\* A constructor that leaves the new dict empty.
CfgInitEmpty(h, d, order) == [outcome |-> "ok", map |-> << >>]

\* DefaultConfiguration.__init__(opts): a new, empty dict, then the loop
\* (skipped when opts is None or empty).  [outcome, map]
CfgInit(h, d, order) == InitLoop(h, << >>, d, order)

\* A merge whose conflict test ignores allow_override and always replaces.
MergeStepAlwaysOverride(h, ret, opt, allow_override) ==
  LET name == OptName(h[opt])
      cleared == IF HasOption(ret, name) THEN RemoveOption(ret, name).map ELSE ret
      r == AddOption(h, cleared, opt)
  IN [outcome |-> r.outcome, map |-> r.map, name |-> NoText]

\* A merge that removes the overridden option and forgets to add the other's.
MergeStepDropOnOverride(h, ret, opt, allow_override) ==
  LET name == OptName(h[opt])
  IN IF HasOption(ret, name)
     THEN IF allow_override
          THEN [outcome |-> "ok", map |-> RemoveOption(ret, name).map,
                name |-> NoText]
          ELSE [outcome |-> "ConflictingMergeError", map |-> ret,
                name |-> Text(name)]
     ELSE LET r == AddOption(h, ret, opt)
          IN [outcome |-> r.outcome, map |-> r.map, name |-> NoText]

\* A merge that keeps its own option where the other's should override it.
MergeStepKeepOwn(h, ret, opt, allow_override) ==
  LET name == OptName(h[opt])
  IN IF HasOption(ret, name)
     THEN IF allow_override
          THEN [outcome |-> "ok", map |-> ret, name |-> NoText]
          ELSE [outcome |-> "ConflictingMergeError", map |-> ret,
                name |-> Text(name)]
     ELSE LET r == AddOption(h, ret, opt)
          IN [outcome |-> r.outcome, map |-> r.map, name |-> NoText]

\* The body of merge's loop for one option opt of other: [outcome, map, name];
\* name is what a ConflictingMergeError carries.
MergeStep(h, ret, opt, allow_override) ==
  LET name == OptName(h[opt])
      conflict == HasOption(ret, name)
  IN IF conflict /\ ~allow_override
     THEN [outcome |-> "ConflictingMergeError", map |-> ret, name |-> Text(name)]
     ELSE LET cleared == IF conflict THEN RemoveOption(ret, name).map ELSE ret
              r == AddOption(h, cleared, opt)
          IN [outcome |-> r.outcome, map |-> r.map, name |-> NoText]

\* The loop of merge over other.options().iteritems(), in the order the dict
\* yields; it ends at the first exception.
RECURSIVE MergeLoop(_, _, _, _, _)
MergeLoop(h, ret, other, order, allow_override) ==
  IF order = <<>> THEN [outcome |-> "ok", map |-> ret, name |-> NoText]
  ELSE LET r == MergeStep(h, ret, other[Head(order)], allow_override)
       IN IF r.outcome # "ok" THEN r
          ELSE MergeLoop(h, r.map, other, Tail(order), allow_override)

\* self.merge(other, allow_override) on the dicts of self and other:
\* [outcome, map, name], map being the dict of ret.
MergeOf(h, self, other, allow_override, orderSelf, orderOther) ==
  LET ret == CfgInit(h, self, orderSelf)
  IN IF ret.outcome # "ok"
     THEN [outcome |-> ret.outcome, map |-> ret.map, name |-> NoText]
     ELSE MergeLoop(h, ret.map, other, orderOther, allow_override)

\* A merge that works on self and returns it.
MergeTargetSelf(self, fresh) == self

\* The object merge works on and returns: the configuration it has just
\* constructed, never self.
MergeTarget(self, fresh) == fresh

(***************************************************************************)
(* Calls on configurations.                                                *)
(***************************************************************************)
Live == {c \in CfgIds : cfgs[c].alive}

\* The id the next constructed configuration gets.
FreshCfg == CHOOSE c \in CfgIds : ~cfgs[c].alive /\ \A x \in 1..(c - 1) : cfgs[x].alive

\* The orders in which a dict with key set S may yield its items.
Orders(S) ==
  {s \in [1..Cardinality(S) -> S] : \A i, j \in DOMAIN s : i # j => s[i] # s[j]}

\* The dict literals handed to the constructor: any names mapped to any options.
DictInputs == UNION {[S -> OptIds] : S \in SUBSET AllNames}

\* c = DefaultConfiguration(d)
NewCfg(d, order) ==
  /\ Live # CfgIds
  /\ LET r == CfgInit(opts, d, order)
     IN /\ cfgs' = IF r.outcome = "ok"
                   THEN [cfgs EXCEPT ![FreshCfg] = [alive |-> TRUE, map |-> r.map]]
                   ELSE cfgs
        /\ res' = [NoRes EXCEPT !.op = "new", !.outcome = r.outcome,
                                !.ret = IF r.outcome = "ok" THEN FreshCfg ELSE 0]
  /\ UNCHANGED <<opts, fsvars>>

\* cfgs[c].add_option(opts[o])
AddOpt(c, o) ==
  /\ c \in Live
  /\ LET r == AddOption(opts, cfgs[c].map, o)
     IN /\ cfgs' = [cfgs EXCEPT ![c].map = r.map]
        /\ res' = [NoRes EXCEPT !.op = "add_option", !.outcome = r.outcome,
                                !.c = c, !.o = o]
  /\ UNCHANGED <<opts, fsvars>>

\* cfgs[c].remove_option(n)
RemoveOpt(c, n) ==
  /\ c \in Live
  /\ LET r == RemoveOption(cfgs[c].map, n)
     IN /\ cfgs' = [cfgs EXCEPT ![c].map = r.map]
        /\ res' = [NoRes EXCEPT !.op = "remove_option", !.outcome = r.outcome,
                                !.c = c, !.n = n]
  /\ UNCHANGED <<opts, fsvars>>

\* r = cfgs[a].merge(cfgs[b], allow).  ret is reachable afterwards only when
\* merge returned it.
Merge(a, b, allow, orderSelf, orderOther) ==
  /\ a \in Live /\ b \in Live /\ Live # CfgIds
  /\ LET r == MergeOf(opts, cfgs[a].map, cfgs[b].map, allow, orderSelf, orderOther)
         ret == MergeTarget(a, FreshCfg)
     IN /\ cfgs' = IF r.outcome = "ok" \/ cfgs[ret].alive
                   THEN [cfgs EXCEPT ![ret] = [alive |-> TRUE, map |-> r.map]]
                   ELSE cfgs
        /\ res' = [NoRes EXCEPT !.op = "merge", !.outcome = r.outcome,
                                !.a = a, !.b = b, !.allow = allow,
                                !.name = r.name,
                                !.ret = IF r.outcome = "ok" THEN ret ELSE 0]
  /\ UNCHANGED <<opts, fsvars>>

\* A value of the type the class of option o takes.
ValidValue(o) ==
  CASE KindOf(o) = "StringOption" -> StrV(<<"t", "e", "s", "t">>)
    [] KindOf(o) = "IntOption" -> IntV(5)
    [] OTHER -> BoolV(TRUE)

\* The option the program sets while configurations hold it: the StringOption.
SetSlots == {o \in OptIds : KindOf(o) = "StringOption"}

Init ==
  /\ opts = InitOpts
  /\ cfgs = [c \in CfgIds |-> NoCfg]
  /\ res = NoRes
  /\ FsInit

Next ==
  \/ /\ Live # CfgIds
     /\ \E d \in DictInputs : \E order \in Orders(DOMAIN d) : NewCfg(d, order)
  \/ \E c \in Live, o \in OptIds : AddOpt(c, o)
  \/ \E c \in Live, n \in AllNames : RemoveOpt(c, n)
  \/ /\ Live # CfgIds
     /\ \E a, b \in Live, allow \in BOOLEAN :
          \E oa \in Orders(DOMAIN cfgs[a].map), ob \in Orders(DOMAIN cfgs[b].map) :
            Merge(a, b, allow, oa, ob)
  \/ \E o \in SetSlots : Set(o, ValidValue(o))

Spec == Init /\ [][Next]_vars

(***************************************************************************)
(* Properties of merge, read in the state right after a merge call.  A, B  *)
(* and R are the dicts of self, other and the returned configuration.      *)
(***************************************************************************)
MergeDone == res.op = "merge"

MergeReturned == res.op = "merge" /\ res.outcome = "ok"

A == cfgs[res.a].map

B == cfgs[res.b].map

R == cfgs[res.ret].map

\* C1: a.merge(b, allow_override) leaves the dict of every existing
\* configuration, a and b included, as it was, whether it returns or raises;
\* what it returns is a configuration that did not exist before, distinct from
\* a and b; and add_option/remove_option on one configuration changes the dict
\* of no other.
C1_MergeLeavesInputsAlone ==
  [][/\ res'.op = "merge" =>
          /\ \A c \in Live : cfgs'[c] = cfgs[c]
          /\ res'.outcome = "ok" =>
               /\ res'.ret \notin Live
               /\ res'.ret \notin {res'.a, res'.b}
               /\ cfgs'[res'.ret].alive
          /\ res'.outcome # "ok" => cfgs' = cfgs
     /\ res'.op \in {"add_option", "remove_option"} =>
          \A c \in CfgIds \ {res'.c} : cfgs'[c] = cfgs[c]
    ]_vars

\* C1 witness: a merge of two different, non-empty configurations returned.
C1_Witness ==
  /\ MergeReturned
  /\ res.a # res.b
  /\ A # << >> /\ B # << >>
  /\ R # A /\ R # B

\* C2: when a and b hold disjoint name sets, a.merge(b) returns under either
\* value of allow_override, the result holds |a| + |b| options, and every name
\* of a or b is present in it with the option the input held.
C2_DisjointMerge ==
  (MergeDone /\ DOMAIN A \cap DOMAIN B = {}) =>
     /\ res.outcome = "ok"
     /\ Cardinality(DOMAIN R) = Cardinality(DOMAIN A) + Cardinality(DOMAIN B)
     /\ \A n \in DOMAIN A :
          HasOption(R, n) /\ GetOption(R, n) = [outcome |-> "ok", o |-> A[n]]
     /\ \A n \in DOMAIN B :
          HasOption(R, n) /\ GetOption(R, n) = [outcome |-> "ok", o |-> B[n]]

\* C2 witness: a merge of disjoint, non-empty configurations, override off.
C2_Witness ==
  /\ MergeReturned /\ ~res.allow
  /\ DOMAIN A # {} /\ DOMAIN B # {}
  /\ DOMAIN A \cap DOMAIN B = {}
  /\ Cardinality(DOMAIN R) = Cardinality(AllNames)

\* C3: when a and b share a name, a.merge(b, allow_override=False) returns
\* nothing: it raises ConflictingMergeError, carrying a name both hold.
C3_ConflictingMerge ==
  (MergeDone /\ ~res.allow /\ DOMAIN A \cap DOMAIN B # {}) =>
     /\ res.outcome = "ConflictingMergeError"
     /\ res.ret = 0
     /\ res.name.form = "text"
     /\ res.name.text \in DOMAIN A \cap DOMAIN B

\* C3 witness: a refused merge of configurations that hold different option
\* objects under the shared name, and another name besides.
C3_Witness ==
  /\ MergeDone /\ ~res.allow
  /\ res.outcome = "ConflictingMergeError"
  /\ \E n \in DOMAIN A \cap DOMAIN B : A[n] # B[n]
  /\ DOMAIN A # DOMAIN B

\* C4: a.merge(b, allow_override=True) always returns; the result's names
\* are the union of the names of a and b; under a name of b it holds b's
\* option, under a name only a has it holds a's.
C4_OverridingMerge ==
  (MergeDone /\ res.allow) =>
     /\ res.outcome = "ok"
     /\ DOMAIN R = DOMAIN A \cup DOMAIN B
     /\ \A n \in DOMAIN B : GetOption(R, n).o = B[n]
     /\ \A n \in DOMAIN A \ DOMAIN B : GetOption(R, n).o = A[n]

\* C4 witness: an overriding merge in which other's option replaced a
\* different option of the same name, and a name of self alone was kept.
C4_Witness ==
  /\ MergeReturned /\ res.allow
  /\ \E n \in DOMAIN A \cap DOMAIN B : A[n] # B[n] /\ R[n] = B[n]
  /\ DOMAIN A \ DOMAIN B # {}

\* C5 as claimed: no option object is held by two configurations after a
\* merge - the result shares none with a or b, so a set through one is not
\* seen through the other.
C5_NeverShared ==
  MergeReturned => Range(R) \cap (Range(A) \cup Range(B)) = {}

\* C5 as the code has it: merge copies references.  Each option of the result
\* is the very object b holds under that name, or a where b has none; and
\* after a successful set on an option, every configuration holding that
\* object reads the new value through get().
C5_MergeSharesOptions ==
  /\ MergeReturned =>
       Range(R) = Range(B) \cup {A[n] : n \in DOMAIN A \ DOMAIN B}
  /\ (res.op = "set" /\ res.outcome = "ok") =>
       \A c \in Live : \A n \in DOMAIN cfgs[c].map :
          cfgs[c].map[n] = res.o =>
            OptGet(opts[cfgs[c].map[n]]) = [outcome |-> "ok", value |-> res.arg]

\* C5 witness: an option was set while a configuration and a merge result of
\* it both hold it, and both read the value.
C5_Witness ==
  /\ res.op = "set" /\ res.outcome = "ok"
  /\ \E a, b, r \in Live :
       /\ r \notin {a, b}
       /\ res.o \in Range(cfgs[a].map) \cap Range(cfgs[r].map)
       /\ cfgs[r].map = MergeOf(opts, cfgs[a].map, cfgs[b].map, TRUE,
                                CHOOSE s \in Orders(DOMAIN cfgs[a].map) : TRUE,
                                CHOOSE s \in Orders(DOMAIN cfgs[b].map) : TRUE).map
       /\ cfgs[b].map # << >>
       /\ \A c \in {a, r} : \A n \in DOMAIN cfgs[c].map :
            cfgs[c].map[n] = res.o => OptGet(opts[res.o]).value = res.arg

\* C6: add_option(o) with o.name() already present raises DuplicateOptionError
\* and leaves the dict unchanged; with o.name() absent it returns, and then
\* has_option(o.name()) is true and get_option(o.name()) is o.
C6_AddOption ==
  [][res'.op = "add_option" =>
       LET m == cfgs[res'.c].map
           m2 == cfgs'[res'.c].map
           name == OptName(opts[res'.o])
       IN IF name \in DOMAIN m
          THEN res'.outcome = "DuplicateOptionError" /\ m2 = m
          ELSE /\ res'.outcome = "ok"
               /\ HasOption(m2, name)
               /\ GetOption(m2, name) = [outcome |-> "ok", o |-> res'.o]
    ]_vars

(***************************************************************************)
(* Properties of a single option, read in the state right after a call.    *)
(* get, get_required and a failed set or parse leave the option as it was, *)
(* so opts[res.o] is also the option the call found.                       *)
(***************************************************************************)
\* C7: on an option constructed without a default, get_required() raises
\* RequiredOptionMissingError carrying the option's name and the comment
\* given while no set/parse has succeeded, and returns what get() returns
\* once one has.
C7_GetRequired ==
  res.op = "get_required" =>
     IF ~opts[res.o].isset
     THEN /\ res.outcome = "RequiredOptionMissingError"
          /\ res.name = Text(OptName(opts[res.o]))
          /\ res.comment = res.arg
     ELSE /\ res.outcome = "ok"
          /\ res.value = OptGet(opts[res.o]).value

\* C8: get() never fails; it returns the value of the last set/parse that
\* succeeded, and an option can be constructed with default=..., which get()
\* returns while nothing has been set.
C8_Get ==
  /\ res.op = "get" =>
       /\ res.outcome = "ok"
       /\ opts[res.o].isset => res.value = opts[res.o].val
  /\ res.op = "set" /\ res.outcome = "ok" =>
       OptGet(opts[res.o]) = [outcome |-> "ok", value |-> res.arg]
  /\ res.op = "construct" => res.outcome = "ok"

\* Whether the runtime type of v is the one the option class declares.
TypeMatches(kind, v) ==
  CASE kind = "StringOption" -> v.t \in {"str", "unicode"}
    [] kind = "IntOption" -> v.t = "int"
    [] OTHER -> v.t = "bool"

\* C9: set(v) returns exactly when the runtime type of v is the one the
\* option's class declares, and raises BadOptionValueType otherwise; an
\* IntOption rejects the string '5' and rejects a bool.
C9_SetChecksType ==
  res.op = "set" =>
     IF TypeMatches(opts[res.o].kind, res.arg)
     THEN res.outcome = "ok"
     ELSE res.outcome = "BadOptionValueType"

\* The strings that are literals of an option class, and what they denote.
IsLiteral(kind, s) ==
  CASE kind = "StringOption" -> TRUE
    [] kind = "IntOption" -> IntOfString(s).outcome = "ok"
    [] OTHER -> BoolParse(StrV(s)).outcome = "ok"

Denotes(kind, s) ==
  CASE kind = "StringOption" -> StrV(s)
    [] kind = "IntOption" -> IntOfString(s).value
    [] OTHER -> BoolParse(StrV(s)).value

\* C10: for each option class and each string s, parse(s) returns when s is a
\* literal of the class, and get() is then the value s denotes; when s is no
\* literal, parse raises OptionParseError and nothing else.
C10_Parse ==
  (res.op = "parse" /\ res.arg.t = "str") =>
     IF IsLiteral(opts[res.o].kind, res.arg.s)
     THEN /\ res.outcome = "ok"
          /\ OptGet(opts[res.o]) =
               [outcome |-> "ok", value |-> Denotes(opts[res.o].kind, res.arg.s)]
     ELSE res.outcome = "OptionParseError"

(***************************************************************************)
(* Paths.  A path string is the sequence of its pieces: the separator "/"  *)
(* and the maximal runs of other characters between separators, so two     *)
(* name pieces are never adjacent.                                         *)
(***************************************************************************)
Sep == "/"

\* path.split('/'): the pieces between separators, and '' where the path
\* begins or ends with a separator or two separators meet.
RECURSIVE Split(_)
Split(p) ==
  IF p = << >> THEN <<"">>
  ELSE IF Head(p) = Sep THEN <<"">> \o Split(Tail(p))
  ELSE IF Len(p) = 1 THEN <<Head(p)>>
  ELSE <<Head(p)>> \o Split(Tail(Tail(p)))

\* p.rfind('/') + 1
AfterLastSep(p) ==
  IF \E i \in 1..Len(p) : p[i] = Sep
  THEN CHOOSE i \in 1..Len(p) : p[i] = Sep /\ \A j \in (i+1)..Len(p) : p[j] # Sep
  ELSE 0

\* p.rstrip('/')
RECURSIVE RStripSep(_)
RStripSep(p) ==
  IF p # << >> /\ p[Len(p)] = Sep THEN RStripSep(SubSeq(p, 1, Len(p) - 1)) ELSE p

\* os.path.split(p): everything up to the last separator, stripped of trailing
\* separators unless it consists of separators only, and what follows it.
PathSplit(p) ==
  LET i == AfterLastSep(p)
      head == SubSeq(p, 1, i)
  IN [head |-> IF \E j \in 1..Len(head) : head[j] # Sep THEN RStripSep(head) ELSE head,
      tail |-> SubSeq(p, i + 1, Len(p))]

\* os.path.join(a, b)
PathJoin(a, b) ==
  IF b # << >> /\ Head(b) = Sep THEN b
  ELSE IF a = << >> \/ a[Len(a)] = Sep THEN a \o b
  ELSE a \o <<Sep>> \o b

(***************************************************************************)
(* The operating system calls LocalFileSystem hands its work to.  Each     *)
(* takes the directory tree and the working directory and gives back how   *)
(* the call ended and the tree it left.  Only directories are modelled.    *)
(***************************************************************************)
\* The directory a path names: '' pieces and a trailing separator do not
\* count; a path that does not begin with a separator starts at cwd.
OsResolve(cwd, p) ==
  LET comps == SelectSeq(Split(p), LAMBDA c : c # "")
  IN IF p # << >> /\ Head(p) = Sep THEN comps ELSE cwd \o comps

Parent(a) == SubSeq(a, 1, Len(a) - 1)

\* b lies at or below a
IsPrefix(a, b) == Len(a) <= Len(b) /\ SubSeq(b, 1, Len(a)) = a

Children(tree, a) == {b \in tree : Len(b) = Len(a) + 1 /\ IsPrefix(a, b)}

OsOk(tree) == [outcome |-> "ok", errno |-> "", tree |-> tree]
OsError(errno, tree) == [outcome |-> "OSError", errno |-> errno, tree |-> tree]

\* os.path.exists(p)
OsExists(tree, cwd, p) == p # << >> /\ OsResolve(cwd, p) \in tree

\* os.mkdir(p)
OsMkdir(tree, cwd, p) ==
  LET a == OsResolve(cwd, p)
  IN IF p = << >> THEN OsError("ENOENT", tree)
     ELSE IF a \in tree THEN OsError("EEXIST", tree)
     ELSE IF Parent(a) \notin tree THEN OsError("ENOENT", tree)
     ELSE OsOk(tree \cup {a})

\* os.rmdir(p)
OsRmdir(tree, cwd, p) ==
  LET a == OsResolve(cwd, p)
  IN IF p = << >> \/ a \notin tree THEN OsError("ENOENT", tree)
     ELSE IF a = << >> THEN OsError("EBUSY", tree)
     ELSE IF Children(tree, a) # {} THEN OsError("ENOTEMPTY", tree)
     ELSE OsOk(tree \ {a})

\* shutil.rmtree(p): the directory and everything below it.
OsRmtree(tree, cwd, p) ==
  LET a == OsResolve(cwd, p)
  IN IF p = << >> \/ a \notin tree THEN OsError("ENOENT", tree)
     ELSE IF a = << >> THEN OsError("EBUSY", {<< >>})
     ELSE OsOk({b \in tree : ~IsPrefix(a, b)})

\* The absolute path tempfile.mkdtemp gives the directory it made as name.
TempPath(name) == <<Sep, "tmp", Sep, name>>

\* tempfile.mkdtemp(suffix=''), its random name having come out as name.
OsMkdtemp(tree, name) ==
  LET r == OsMkdir(tree, << >>, TempPath(name))
  IN [outcome |-> r.outcome, errno |-> r.errno, tree |-> r.tree,
      path |-> IF r.outcome = "ok" THEN TempPath(name) ELSE << >>]

(***************************************************************************)
(* MemoryFileSystem's private tree.                                        *)
(***************************************************************************)
\* rec of __lookup, cur being the node reached so far.  The value of the
\* recursive call is dropped, so a walk that takes a step gives None.
RECURSIVE LookupRec(_, _, _)
LookupRec(tree, cur, comps) ==
  IF comps = << >>
  THEN [outcome |-> "ok", errno |-> "", none |-> FALSE, at |-> cur]
  ELSE IF cur # << >> /\ tree[cur] # "dict"
  THEN [outcome |-> "OSError", errno |-> "ENOTDIR", none |-> TRUE, at |-> << >>]
  ELSE IF Append(cur, Head(comps)) \in DOMAIN tree
  THEN LET r == LookupRec(tree, Append(cur, Head(comps)), Tail(comps))
       IN IF r.outcome = "ok" THEN [r EXCEPT !.none = TRUE, !.at = << >>] ELSE r
  ELSE [outcome |-> "OSError", errno |-> "ENOENT", none |-> TRUE, at |-> << >>]

\* MemoryFileSystem.__lookup(path)
Lookup(tree, p) == LookupRec(tree, << >>, Split(p))

\* MemoryFileSystem.__split_slash_agnostically(path)
SplitSlashAgnostically(p) ==
  LET s1 == PathSplit(p)
      s2 == IF s1.tail = << >> THEN PathSplit(s1.head) ELSE s1
  IN IF s2.head = << >> \/ s2.tail = << >>
     THEN [outcome |-> "AssertionError", directory |-> << >>, file |-> << >>]
     ELSE [outcome |-> "ok", directory |-> s2.head, file |-> s2.tail]

\* The path MemoryFileSystem.mkdir(p) hands to __lookup, s being p as split
\* by __split_slash_agnostically: d = self.__lookup(path).
MkdirLookupPath(p, s) == p

\* MemoryFileSystem.mkdir(path) on the tree: how it ends and the tree it leaves.
MemMkdir(tree, p) ==
  LET s == SplitSlashAgnostically(p)
      d == Lookup(tree, MkdirLookupPath(p, s))
      new == Append(d.at, s.file[1])
  IN IF s.outcome # "ok" THEN [outcome |-> s.outcome, errno |-> "", tree |-> tree]
     ELSE IF d.outcome # "ok" THEN [outcome |-> d.outcome, errno |-> d.errno, tree |-> tree]
     ELSE IF d.none THEN [outcome |-> "TypeError", errno |-> "", tree |-> tree]
     ELSE IF new \in DOMAIN tree THEN OsError("EEXIST", tree)
     ELSE OsOk([q \in DOMAIN tree \cup {new} |-> IF q = new THEN "dict" ELSE tree[q]])

(***************************************************************************)
(* The methods of the two FileSystem classes.  cls is the class of self,   *)
(* cwd and os the working directory and tree of the operating system, mem  *)
(* the __tree of self when it is a MemoryFileSystem.  The result says how  *)
(* the call ended, what it returned, and the trees it left.                *)
(***************************************************************************)
Classes == {"LocalFileSystem", "MemoryFileSystem"}

Raised(exc, os, mem) ==
  [outcome |-> exc, errno |-> "", ret |-> "", path |-> << >>, names |-> << >>,
   os |-> os, mem |-> mem]

Returned(ret, path, os, mem) ==
  [outcome |-> "ok", errno |-> "", ret |-> ret, path |-> path, names |-> << >>,
   os |-> os, mem |-> mem]

\* The result of a method that is one operating system call.
OfOs(r, mem) ==
  [outcome |-> r.outcome, errno |-> r.errno,
   ret |-> IF r.outcome = "ok" THEN "None" ELSE "", path |-> << >>,
   names |-> << >>, os |-> r.tree, mem |-> mem]

FsMkdir(cls, cwd, os, mem, p) ==
  IF cls = "LocalFileSystem" THEN OfOs(OsMkdir(os, cwd, p), mem)
  ELSE LET r == MemMkdir(mem, p)
       IN [outcome |-> r.outcome, errno |-> r.errno,
           ret |-> IF r.outcome = "ok" THEN "None" ELSE "", path |-> << >>,
           names |-> << >>, os |-> os, mem |-> r.tree]

FsRmdir(cls, cwd, os, mem, p) ==
  IF cls = "LocalFileSystem" THEN OfOs(OsRmdir(os, cwd, p), mem)
  ELSE Raised("NotImplementedError", os, mem)

FsRmtree(cls, cwd, os, mem, p) ==
  IF cls = "LocalFileSystem" THEN OfOs(OsRmtree(os, cwd, p), mem)
  ELSE Raised("NotImplementedError", os, mem)

\* exists is os.path.exists(path) in FileSystem and in MemoryFileSystem.
FsExists(cls, cwd, os, mem, p) ==
  Returned(IF OsExists(os, cwd, p) THEN "True" ELSE "False", << >>, os, mem)

\* Neither class, nor FileSystem, defines is_dir or listdir.
FsIsDir(cls, cwd, os, mem, p) == Raised("AttributeError", os, mem)

FsListdir(cls, cwd, os, mem, p) == Raised("AttributeError", os, mem)

FsMkdtemp(cls, cwd, os, mem, name) ==
  IF cls = "LocalFileSystem"
  THEN LET r == OsMkdtemp(os, name)
       IN [outcome |-> r.outcome, errno |-> r.errno,
           ret |-> IF r.outcome = "ok" THEN "path" ELSE "", path |-> r.path,
           names |-> << >>, os |-> r.tree, mem |-> mem]
  ELSE Raised("NotImplementedError", os, mem)

\* FileSystem.tempdir: dirname = self.mkdtemp(), then the TemporaryDirectory.
\* MemoryFileSystem.tempdir names dirname without binding it.
FsTempdir(cls, cwd, os, mem, name) ==
  IF cls = "LocalFileSystem"
  THEN LET r == FsMkdtemp(cls, cwd, os, mem, name)
       IN IF r.outcome = "ok" THEN [r EXCEPT !.ret = "TemporaryDirectory"] ELSE r
  ELSE Raised("NameError", os, mem)

(***************************************************************************)
(* TemporaryDirectory.  made tells how the instance came about: from       *)
(* tempdir() or from a call of the class.                                  *)
(***************************************************************************)
\* TemporaryDirectory.__init__(fs, path)
TdNew(cls, path, made) ==
  [alive |-> TRUE, fs |-> cls, path |-> path, stale |-> FALSE, made |-> made]

RmtreeCall(td) == [fs |-> td.fs, path |-> td.path]

TdCloseEveryTime(td) ==
  [td |-> [td EXCEPT !.stale = TRUE], calls |-> <<RmtreeCall(td)>>]

TdCloseUnmarked(td) ==
  IF ~td.stale THEN [td |-> td, calls |-> <<RmtreeCall(td)>>]
  ELSE [td |-> td, calls |-> << >>]

\* TemporaryDirectory.close: the instance it leaves and the rmtree calls it
\* makes once the flag is set.
TdClose(td) ==
  IF ~td.stale
  THEN [td |-> [td EXCEPT !.stale = TRUE], calls |-> <<RmtreeCall(td)>>]
  ELSE [td |-> td, calls |-> << >>]

TdMarkedOnSuccess(td, outcome) == [td EXCEPT !.stale = (outcome = "ok")]

\* TemporaryDirectory.close after its rmtree call ended with outcome: the
\* flag was set before the call and nothing follows the call.
TdAfterRmtree(td, outcome) == td

TdGetUnguarded(td, what) ==
  [outcome |-> "ok", ret |-> what, path |-> IF what = "path" THEN td.path ELSE << >>,
   fs |-> IF what = "fs" THEN td.fs ELSE ""]

\* TemporaryDirectory.__get_fs and __get_path, what being "fs" or "path".
TdGet(td, what) ==
  IF td.stale
  THEN [outcome |-> "StaleTemporaryDirectory", ret |-> "", path |-> << >>, fs |-> ""]
  ELSE [outcome |-> "ok", ret |-> what,
        path |-> IF what = "path" THEN td.path ELSE << >>,
        fs |-> IF what = "fs" THEN td.fs ELSE ""]

(***************************************************************************)
(* The calls a program makes on the file system layer.                     *)
(***************************************************************************)
\* The random names tempfile.mkdtemp comes up with.
TempNames == {"t1", "t2"}

\* The paths of the calls: a temporary directory and testdir in it, as
\* test_tempdir has them, and two paths that do not begin with a separator.
PathInputs ==
  {TempPath("t1"), PathJoin(TempPath("t1"), <<"testdir">>),
   <<"tmp", Sep, "foo">>, <<"tmp">>}

\* The paths handed to TemporaryDirectory(fs, path).
DirectPaths == {<<"tmp", Sep, "foo">>, <<"tmp">>}

LiveTds == {h \in TdIds : tds[h].alive}

\* The id the next TemporaryDirectory instance gets.
FreshTd == CHOOSE h \in TdIds : ~tds[h].alive /\ \A g \in TdIds : g < h => tds[g].alive

\* How a call ended, without the trees.
OutcomeOf(r) ==
  [outcome |-> r.outcome, errno |-> r.errno, ret |-> r.ret, path |-> r.path,
   names |-> r.names]

\* The record of a call of method op on an instance of cls which ended as r,
\* and as e on the LocalFileSystem of reftree.
Recorded(op, cls, p, r, e) ==
  [NoFres EXCEPT !.op = op, !.fs = cls, !.path = p, !.outcome = r.outcome,
                 !.errno = r.errno, !.ret = r.ret, !.retpath = r.path,
                 !.names = r.names,
                 !.ref = IF cls = "MemoryFileSystem" THEN OutcomeOf(e) ELSE NoOutcome]

\* A call that touches no TemporaryDirectory.
TreeCall(op, cls, p, r, e) ==
  /\ ostree' = r.os
  /\ memtree' = r.mem
  /\ reftree' = IF cls = "MemoryFileSystem" THEN e.os ELSE reftree
  /\ fres' = Recorded(op, cls, p, r, e)
  /\ UNCHANGED <<tds, rmlog, cfgvars>>

\* fs.mkdir(p)
Mkdir(cls, p) ==
  TreeCall("mkdir", cls, p, FsMkdir(cls, Cwd, ostree, memtree, p),
           FsMkdir("LocalFileSystem", RefCwd, reftree, memtree, p))

\* fs.rmdir(p)
Rmdir(cls, p) ==
  TreeCall("rmdir", cls, p, FsRmdir(cls, Cwd, ostree, memtree, p),
           FsRmdir("LocalFileSystem", RefCwd, reftree, memtree, p))

\* fs.rmtree(p)
Rmtree(cls, p) ==
  TreeCall("rmtree", cls, p, FsRmtree(cls, Cwd, ostree, memtree, p),
           FsRmtree("LocalFileSystem", RefCwd, reftree, memtree, p))

\* fs.exists(p)
Exists(cls, p) ==
  TreeCall("exists", cls, p, FsExists(cls, Cwd, ostree, memtree, p),
           FsExists("LocalFileSystem", RefCwd, reftree, memtree, p))

\* fs.is_dir(p)
IsDir(cls, p) ==
  TreeCall("is_dir", cls, p, FsIsDir(cls, Cwd, ostree, memtree, p),
           FsIsDir("LocalFileSystem", RefCwd, reftree, memtree, p))

\* fs.listdir(p)
Listdir(cls, p) ==
  TreeCall("listdir", cls, p, FsListdir(cls, Cwd, ostree, memtree, p),
           FsListdir("LocalFileSystem", RefCwd, reftree, memtree, p))

\* The tree on which the call of an instance of cls draws its random name.
NameTree(cls) == IF cls = "LocalFileSystem" THEN ostree ELSE reftree

\* fs.mkdtemp(), the name drawn being one not in use.
Mkdtemp(cls, name) ==
  /\ OsResolve(<< >>, TempPath(name)) \notin NameTree(cls)
  /\ TreeCall("mkdtemp", cls, << >>, FsMkdtemp(cls, Cwd, ostree, memtree, name),
              FsMkdtemp("LocalFileSystem", RefCwd, reftree, memtree, name))

\* td = fs.tempdir()
Tempdir(cls, name) ==
  /\ OsResolve(<< >>, TempPath(name)) \notin NameTree(cls)
  /\ LiveTds # TdIds
  /\ LET r == FsTempdir(cls, Cwd, ostree, memtree, name)
         e == FsTempdir("LocalFileSystem", RefCwd, reftree, memtree, name)
     IN /\ ostree' = r.os
        /\ memtree' = r.mem
        /\ reftree' = IF cls = "MemoryFileSystem" THEN e.os ELSE reftree
        /\ tds' = IF r.outcome = "ok"
                  THEN [tds EXCEPT ![FreshTd] = TdNew(cls, r.path, "tempdir")]
                  ELSE tds
        /\ fres' = [Recorded("tempdir", cls, << >>, r, e) EXCEPT
                      !.h = IF r.outcome = "ok" THEN FreshTd ELSE 0]
  /\ UNCHANGED <<rmlog, cfgvars>>

\* td = TemporaryDirectory(fs, p)
NewTd(cls, p) ==
  /\ LiveTds # TdIds
  /\ tds' = [tds EXCEPT ![FreshTd] = TdNew(cls, p, "direct")]
  /\ fres' = [NoFres EXCEPT !.op = "TemporaryDirectory", !.fs = cls, !.path = p,
                            !.ret = "TemporaryDirectory", !.h = FreshTd]
  /\ UNCHANGED <<ostree, memtree, reftree, rmlog, cfgvars>>

\* What close() of tds[h] does, op being the call that led to it.
CloseCall(op, h, exc) ==
  /\ h \in LiveTds
  /\ LET c == TdClose(tds[h])
         cls == tds[h].fs
         r == IF c.calls = << >> THEN Returned("None", << >>, ostree, memtree)
              ELSE FsRmtree(c.calls[1].fs, Cwd, ostree, memtree, c.calls[1].path)
         e == IF c.calls = << >> THEN Returned("None", << >>, reftree, memtree)
              ELSE FsRmtree("LocalFileSystem", RefCwd, reftree, memtree, c.calls[1].path)
     IN /\ tds' = [tds EXCEPT ![h] = IF c.calls = << >> THEN c.td
                                     ELSE TdAfterRmtree(c.td, r.outcome)]
        /\ rmlog' = [rmlog EXCEPT ![h] = @ \o c.calls]
        /\ ostree' = r.os
        /\ memtree' = r.mem
        /\ reftree' = IF cls = "MemoryFileSystem" THEN e.os ELSE reftree
        /\ fres' = [Recorded(op, cls, tds[h].path, r, e) EXCEPT
                      !.h = h, !.exc = exc, !.calls = c.calls]
  /\ UNCHANGED cfgvars

\* tds[h].close()
Close(h) == CloseCall("close", h, FALSE)

\* tds[h].__exit__(type, value, traceback) at the end of a with block, left
\* by an exception (exc) or not.
Exit(h, exc) == CloseCall("__exit__", h, exc)

\* tds[h].__enter__()
Enter(h) ==
  /\ h \in LiveTds
  /\ fres' = [NoFres EXCEPT !.op = "__enter__", !.fs = tds[h].fs, !.h = h,
                            !.ret = "TemporaryDirectory"]
  /\ UNCHANGED <<ostree, memtree, reftree, tds, rmlog, cfgvars>>

\* tds[h].path and tds[h].fs
Read(h, what) ==
  /\ h \in LiveTds
  /\ LET r == TdGet(tds[h], what)
     IN fres' = [NoFres EXCEPT !.op = what, !.fs = tds[h].fs, !.h = h,
                               !.outcome = r.outcome, !.ret = r.ret,
                               !.retpath = r.path, !.retfs = r.fs]
  /\ UNCHANGED <<ostree, memtree, reftree, tds, rmlog, cfgvars>>

InitFS ==
  /\ opts = InitOpts
  /\ cfgs = [c \in CfgIds |-> NoCfg]
  /\ res = NoRes
  /\ FsInit

\* A program that works on the operating system through a LocalFileSystem,
\* and holds TemporaryDirectory instances of either class.
NextFS ==
  \/ \E p \in PathInputs : Mkdir("LocalFileSystem", p)
  \/ \E p \in PathInputs : Rmdir("LocalFileSystem", p)
  \/ \E p \in PathInputs : Rmtree("LocalFileSystem", p)
  \/ \E p \in PathInputs : Exists("LocalFileSystem", p)
  \/ \E p \in PathInputs : IsDir("LocalFileSystem", p)
  \/ \E p \in PathInputs : Listdir("LocalFileSystem", p)
  \/ \E n \in TempNames : Mkdtemp("LocalFileSystem", n)
  \/ \E n \in TempNames : Tempdir("LocalFileSystem", n)
  \/ \E cls \in Classes, p \in DirectPaths : NewTd(cls, p)
  \/ \E h \in TdIds : Close(h)
  \/ \E h \in TdIds, exc \in BOOLEAN : Exit(h, exc)
  \/ \E h \in TdIds : Enter(h)
  \/ \E h \in TdIds, what \in {"fs", "path"} : Read(h, what)

SpecFS == InitFS /\ [][NextFS]_vars

\* A program that works on a MemoryFileSystem, next to it the LocalFileSystem
\* of reftree that is handed the same calls.
NextMem ==
  \/ \E p \in PathInputs : Mkdir("MemoryFileSystem", p)
  \/ \E p \in PathInputs : Rmdir("MemoryFileSystem", p)
  \/ \E p \in PathInputs : Rmtree("MemoryFileSystem", p)
  \/ \E p \in PathInputs : Exists("MemoryFileSystem", p)
  \/ \E p \in PathInputs : IsDir("MemoryFileSystem", p)
  \/ \E p \in PathInputs : Listdir("MemoryFileSystem", p)
  \/ \E n \in TempNames : Mkdtemp("MemoryFileSystem", n)
  \/ \E n \in TempNames : Tempdir("MemoryFileSystem", n)
  \/ \E p \in DirectPaths : NewTd("MemoryFileSystem", p)
  \/ \E h \in TdIds : Close(h)
  \/ \E h \in TdIds, exc \in BOOLEAN : Exit(h, exc)
  \/ \E h \in TdIds : Enter(h)
  \/ \E h \in TdIds, what \in {"fs", "path"} : Read(h, what)

SpecMem == InitFS /\ [][NextMem]_vars

(***************************************************************************)
(* Properties of TemporaryDirectory.                                       *)
(***************************************************************************)
\* The calls that end a TemporaryDirectory: close() and the end of a with
\* block.
CloseOps == {"close", "__exit__"}

\* C11: whatever closes and scope exits a TemporaryDirectory has seen, its
\* owning FileSystem's rmtree has been called by it not at all while it is
\* not stale, and exactly once, with the directory's own path, once it is;
\* and every close() and every scope exit, normal or exceptional, leaves it
\* stale.
C11_RmtreeExactlyOnce ==
  \A h \in TdIds :
    tds[h].alive =>
      /\ rmlog[h] = IF tds[h].stale THEN <<[fs |-> tds[h].fs, path |-> tds[h].path]>>
                    ELSE << >>
      /\ fres.op \in CloseOps /\ fres.h = h => tds[h].stale

\* C11 witness: a with block was left by an exception on a directory that
\* had been closed before, its one rmtree call already made.
C11_Witness ==
  /\ fres.op = "__exit__" /\ fres.exc /\ fres.calls = << >>
  /\ tds[fres.h].made = "tempdir"
  /\ Len(rmlog[fres.h]) = 1

\* C12: close() on a stale TemporaryDirectory, and a scope exit of one,
\* returns without an error, calls nothing on the FileSystem, and leaves
\* the trees and the instance as they were.
C12_StaleCloseIsNoOp ==
  [][\A h \in TdIds :
       tds[h].alive /\ tds[h].stale /\ fres'.op \in CloseOps /\ fres'.h = h =>
         /\ fres'.outcome = "ok"
         /\ fres'.calls = << >>
         /\ UNCHANGED <<ostree, memtree, reftree, tds, rmlog>>]_vars

\* C12 witness: close() returned having called nothing although a directory
\* is at the path again.
C12_Witness ==
  /\ fres.op = "close" /\ fres.outcome = "ok" /\ fres.calls = << >>
  /\ tds[fres.h].stale
  /\ tds[fres.h].fs = "LocalFileSystem"
  /\ OsExists(ostree, Cwd, tds[fres.h].path)

\* C13: a TemporaryDirectory keeps the file system and path it was made with
\* and, once stale, stays stale; reading path or fs of a stale one raises
\* StaleTemporaryDirectory, and of one not stale returns what it was made
\* with.
C13_StaleGatesAccess ==
  [][\A h \in TdIds :
       /\ tds[h].alive =>
            /\ tds'[h].alive
            /\ tds'[h].fs = tds[h].fs /\ tds'[h].path = tds[h].path
            /\ tds[h].stale => tds'[h].stale
       /\ ~tds[h].alive /\ tds'[h].alive =>
            /\ ~tds'[h].stale
            /\ tds'[h].fs = fres'.fs
            /\ tds'[h].path = IF fres'.op = "tempdir" THEN fres'.retpath ELSE fres'.path
       /\ fres'.op \in {"path", "fs"} /\ fres'.h = h =>
            IF tds[h].stale THEN fres'.outcome = "StaleTemporaryDirectory"
            ELSE /\ fres'.outcome = "ok"
                 /\ fres'.op = "path" => fres'.retpath = tds[h].path
                 /\ fres'.op = "fs" => fres'.retfs = tds[h].fs]_vars

\* C13 witness: path was read on a stale TemporaryDirectory and the read
\* raised.
C13_Witness ==
  /\ fres.op = "path" /\ fres.outcome = "StaleTemporaryDirectory"
  /\ tds[fres.h].stale

(***************************************************************************)
(* Properties of the FileSystem classes.  They are read under SpecMem,     *)
(* where fres is the call as the MemoryFileSystem ended it and fres.ref    *)
(* the same call as the LocalFileSystem of reftree ended it.               *)
(***************************************************************************)
\* The directory under which an instance of cls makes temporary directories
\* is there.
TmpRootThere(cls) == <<"tmp">> \in NameTree(cls)

\* C14: on either implementation tempdir() hands out a TemporaryDirectory,
\* and right after the close() or scope exit that removes it, exists(p) is
\* false for its path.
C14_ClosedTempdirIsGone ==
  /\ fres.op = "tempdir" /\ TmpRootThere(fres.fs) =>
       /\ fres.outcome = "ok"
       /\ fres.fs = "MemoryFileSystem" => fres.ref.outcome = "ok"
  /\ fres.op \in CloseOps /\ fres.calls # << >> /\ tds[fres.h].made = "tempdir" =>
       FsExists(fres.fs, Cwd, ostree, memtree, fres.path).ret = "False"

\* The entry of MemoryFileSystem's tree that path p names, and whether it
\* and its parent directory are there.
MemKey(p) == Split(p)

InMemTree(tree, p) == MemKey(p) \in DOMAIN tree

ParentInMemTree(tree, p) ==
  \/ Len(MemKey(p)) = 1
  \/ /\ Parent(MemKey(p)) \in DOMAIN tree
     /\ tree[Parent(MemKey(p))] = "dict"

MemChildren(tree, k) == {q \in DOMAIN tree : Len(q) = Len(k) + 1 /\ IsPrefix(k, q)}

\* C15: on a MemoryFileSystem, mkdir(p) for a p whose parent directory is in
\* the tree returns and adds p as an empty directory when p is not in the
\* tree, and raises OSError(EEXIST), changing nothing, when it is.
C15_MemoryMkdir ==
  [][fres'.op = "mkdir" /\ fres'.fs = "MemoryFileSystem"
       /\ ParentInMemTree(memtree, fres'.path) =>
       IF InMemTree(memtree, fres'.path)
       THEN fres'.outcome = "OSError" /\ fres'.errno = "EEXIST" /\ memtree' = memtree
       ELSE /\ fres'.outcome = "ok"
            /\ DOMAIN memtree' = DOMAIN memtree \cup {MemKey(fres'.path)}
            /\ memtree'[MemKey(fres'.path)] = "dict"]_vars

\* C16: rmdir(p) of a directory that has a child raises OSError(ENOTEMPTY)
\* on the LocalFileSystem and on the MemoryFileSystem handed the same calls,
\* and removes nothing.
C16_RmdirNotEmpty ==
  [][fres'.op = "rmdir" /\ fres'.fs = "MemoryFileSystem"
       /\ OsResolve(RefCwd, fres'.path) \in reftree
       /\ Children(reftree, OsResolve(RefCwd, fres'.path)) # {} =>
       /\ fres'.ref.outcome = "OSError" /\ fres'.ref.errno = "ENOTEMPTY"
       /\ fres'.outcome = "OSError" /\ fres'.errno = "ENOTEMPTY"
       /\ reftree' = reftree /\ memtree' = memtree]_vars

\* C17: rmdir(p) of an empty directory returns and removes that entry and no
\* other, and rmdir(p) of a path that is not there raises OSError(ENOENT);
\* on the LocalFileSystem by its tree, on the MemoryFileSystem by its own.
C17_Rmdir ==
  [][fres'.op = "rmdir" /\ fres'.fs = "MemoryFileSystem" =>
       LET a == OsResolve(RefCwd, fres'.path)
           k == MemKey(fres'.path)
       IN /\ a \in reftree /\ a # << >> /\ Children(reftree, a) = {} =>
               fres'.ref.outcome = "ok" /\ reftree' = reftree \ {a}
          /\ a \notin reftree =>
               /\ fres'.ref.outcome = "OSError" /\ fres'.ref.errno = "ENOENT"
               /\ reftree' = reftree
          /\ k \in DOMAIN memtree /\ MemChildren(memtree, k) = {} =>
               fres'.outcome = "ok" /\ DOMAIN memtree' = DOMAIN memtree \ {k}
          /\ k \notin DOMAIN memtree =>
               /\ fres'.outcome = "OSError" /\ fres'.errno = "ENOENT"
               /\ memtree' = memtree]_vars

\* C18: on a MemoryFileSystem exists(p) returns True exactly when p is in
\* its tree, and is_dir(p) returns True for every directory of the tree.
C18_MemoryExists ==
  /\ fres.op = "exists" /\ fres.fs = "MemoryFileSystem" =>
       /\ fres.outcome = "ok"
       /\ fres.ret = "True" <=> InMemTree(memtree, fres.path)
  /\ fres.op = "is_dir" /\ fres.fs = "MemoryFileSystem"
       /\ InMemTree(memtree, fres.path) =>
       fres.outcome = "ok" /\ fres.ret = "True"

\* names lists every element of S once and nothing else.
ListsExactly(names, S) ==
  /\ Len(names) = Cardinality(S)
  /\ {names[i] : i \in 1..Len(names)} = S

\* C19: listdir(d) of a directory returns the names of its children, each
\* once and no other; on the LocalFileSystem by its tree, on the
\* MemoryFileSystem by its own.
C19_Listdir ==
  fres.op = "listdir" /\ fres.fs = "MemoryFileSystem" =>
    LET a == OsResolve(RefCwd, fres.path)
        k == MemKey(fres.path)
    IN /\ a \in reftree =>
            /\ fres.ref.outcome = "ok"
            /\ ListsExactly(fres.ref.names, {b[Len(b)] : b \in Children(reftree, a)})
       /\ k \in DOMAIN memtree =>
            /\ fres.outcome = "ok"
            /\ ListsExactly(fres.names, {q[Len(q)] : q \in MemChildren(memtree, k)})

\* The calls test_tempdir makes on either implementation.
SharedOps ==
  {"tempdir", "mkdir", "rmdir", "exists", "is_dir", "listdir", "close", "__exit__"}

\* C20: every call of test_tempdir's kinds ends on the MemoryFileSystem as it
\* ends on the LocalFileSystem handed the same calls: both return the same,
\* or both raise the same kind of error.
C20_Substitutable ==
  fres.fs = "MemoryFileSystem" /\ fres.op \in SharedOps =>
    /\ fres.outcome = fres.ref.outcome
    /\ fres.errno = fres.ref.errno
    /\ fres.ret = fres.ref.ret
    /\ fres.names = fres.ref.names

\* Path p names an entry that mkdtemp has just made in MemoryFileSystem's
\* tree: below tmp, not there before the call, an empty directory after it.
Allocated(p) ==
  LET k == MemKey(p)
  IN /\ \E i \in 1..(Len(k) - 1) : k[i] = "tmp"
     /\ k \notin DOMAIN memtree
     /\ k \in DOMAIN memtree'
     /\ memtree'[k] = "dict"
     /\ MemChildren(memtree', k) = {}

\* C21: on a MemoryFileSystem mkdtemp() returns the path of a directory
\* below tmp that was not in the tree before the call and is in it, empty,
\* after the call; and tempdir() returns a TemporaryDirectory that is not
\* stale, whose fs is the MemoryFileSystem and whose path was allocated so.
C21_MemoryMkdtemp ==
  [][/\ fres'.op = "mkdtemp" /\ fres'.fs = "MemoryFileSystem" =>
          /\ fres'.outcome = "ok" /\ fres'.ret = "path"
          /\ Allocated(fres'.retpath)
     /\ fres'.op = "tempdir" /\ fres'.fs = "MemoryFileSystem" =>
          /\ fres'.outcome = "ok" /\ fres'.h \in TdIds
          /\ tds'[fres'.h].alive /\ ~tds'[fres'.h].stale
          /\ tds'[fres'.h].fs = "MemoryFileSystem"
          /\ tds'[fres'.h].path = fres'.retpath
          /\ Allocated(fres'.retpath)]_vars

(***************************************************************************)
(* MemoryFileSystem.__lookup as a function of the tree and the path.  The  *)
(* trees are of the shape __init__ lays down: a directory is a dict, a     *)
(* file or symlink a tuple.                                                *)
(***************************************************************************)
\* The tree with these directories and these files.
TreeOf(dirs, files) == [q \in dirs \cup files |-> IF q \in dirs THEN "dict" ELSE "tuple"]

LookupTrees ==
  {InitMemTree,
   TreeOf({<<"tmp">>, <<"tmp", "foo">>}, {}),
   TreeOf({<<"tmp">>, <<"tmp", "foo">>, <<"tmp", "foo", "bar">>}, {}),
   TreeOf({<<"tmp">>}, {<<"tmp", "foo">>}),
   TreeOf({<<"tmp">>, <<"tmp", "foo">>}, {<<"tmp", "foo", "bar">>}),
   TreeOf({<<"tmp">>, <<"tmp", "bar">>}, {<<"foo">>})}

LookupPaths ==
  {<<"tmp">>, <<"tmp", Sep, "foo">>, <<"tmp", Sep, "foo", Sep, "bar">>,
   <<"tmp", Sep, "bar">>, <<"tmp", Sep, "foo", Sep, "bar", Sep, "baz">>,
   <<"foo">>, <<"foo", Sep, "bar">>, <<Sep, "tmp">>, <<"tmp", Sep>>, << >>}

\* self.__lookup(p)
LookupCall(p) ==
  /\ LET r == Lookup(memtree, p)
     IN fres' = [NoFres EXCEPT !.op = "__lookup", !.fs = "MemoryFileSystem",
                               !.path = p, !.outcome = r.outcome, !.errno = r.errno,
                               !.ret = IF r.outcome # "ok" THEN ""
                                       ELSE IF r.none THEN "None" ELSE "node",
                               !.retpath = r.at]
  /\ UNCHANGED <<ostree, memtree, reftree, tds, rmlog, cfgvars>>

InitLookup ==
  /\ opts = InitOpts
  /\ cfgs = [c \in CfgIds |-> NoCfg]
  /\ res = NoRes
  /\ ostree = InitOsTree
  /\ memtree \in LookupTrees
  /\ reftree = InitRefTree
  /\ tds = [h \in TdIds |-> NoTd]
  /\ rmlog = [h \in TdIds |-> << >>]
  /\ fres = NoFres

NextLookup ==
  \/ \E p \in LookupPaths : LookupCall(p)
  \/ \E p \in LookupPaths : Mkdir("MemoryFileSystem", p)

SpecLookup == InitLookup /\ [][NextLookup]_vars

\* The first i components of key k.
Upto(k, i) == SubSeq(k, 1, i)

\* C22: __lookup(p) walks the components of p from the root.  It returns the
\* node p names when every component is there; it raises OSError(ENOTDIR)
\* when a component has to be looked up in a node that is not a directory,
\* and OSError(ENOENT) when a component is not in its directory.  And
\* mkdir(p) hands __lookup the directory part of p, not p.
C22_Lookup ==
  /\ fres.op = "__lookup" =>
       LET k == MemKey(fres.path)
           missing == {i \in 1..Len(k) : Upto(k, i) \notin DOMAIN memtree}
           first == CHOOSE i \in missing : \A j \in missing : i <= j
       IN IF missing = {}
          THEN fres.outcome = "ok" /\ fres.ret = "node" /\ fres.retpath = k
          ELSE /\ fres.outcome = "OSError"
               /\ fres.errno = IF first > 1 /\ memtree[Upto(k, first - 1)] # "dict"
                               THEN "ENOTDIR" ELSE "ENOENT"
  /\ fres.op = "mkdir" /\ fres.fs = "MemoryFileSystem" =>
       LET s == SplitSlashAgnostically(fres.path)
       IN s.outcome = "ok" => MkdirLookupPath(fres.path, s) = s.directory

(***************************************************************************)
(* The frame of a failed set or parse.                                     *)
(***************************************************************************)
\* C23: a set or parse that raises leaves the option as it was: its flag
\* and value are unchanged, so get_required() still raises when nothing was
\* set before, and get() still returns the value set before when there was
\* one.
C23_FailedSetLeavesOption ==
  [][res'.op \in {"set", "parse"} /\ res'.outcome # "ok" =>
       /\ opts' = opts
       /\ ~opts[res'.o].isset =>
            OptGetRequired(opts'[res'.o], NoneV).outcome = "RequiredOptionMissingError"
       /\ opts[res'.o].hasval =>
            OptGet(opts'[res'.o]) = [outcome |-> "ok", value |-> opts[res'.o].val]]_vars

\* C23 witness: set raised on an option that holds another value from an
\* earlier set.
C23_Witness ==
  /\ res.op = "set" /\ res.outcome = "BadOptionValueType"
  /\ opts[res.o].isset /\ opts[res.o].hasval
  /\ opts[res.o].val # res.arg

(***************************************************************************)
(* close() when rmtree fails.                                              *)
(***************************************************************************)
\* C24: close() of a TemporaryDirectory that is not stale, and a scope exit
\* of one, calls rmtree once with its own path and ends as that call ends,
\* so an error of rmtree reaches the caller; the instance is stale after it
\* whether rmtree failed or not; and a close() or scope exit of a stale one
\* calls nothing, so no instance ever makes a second rmtree call.
C24_StaleBeforeRmtree ==
  [][\A h \in TdIds :
       tds[h].alive /\ fres'.op \in CloseOps /\ fres'.h = h =>
         /\ ~tds[h].stale =>
              LET r == FsRmtree(tds[h].fs, Cwd, ostree, memtree, tds[h].path)
              IN /\ fres'.calls = <<RmtreeCall(tds[h])>>
                 /\ fres'.outcome = r.outcome /\ fres'.errno = r.errno
                 /\ tds'[h].stale
         /\ tds[h].stale => fres'.calls = << >> /\ tds'[h].stale
         /\ Len(rmlog'[h]) <= 1]_vars

\* C24 witness: a close() that called nothing, on an instance whose one
\* rmtree call had failed and whose directory is still in the tree.
C24_Witness ==
  /\ fres.op = "close" /\ fres.outcome = "ok" /\ fres.calls = << >>
  /\ tds[fres.h].fs = "MemoryFileSystem"
  /\ tds[fres.h].stale
  /\ Len(rmlog[fres.h]) = 1
  /\ InMemTree(memtree, tds[fres.h].path)
====
